---- MODULE Spec2Model ----
(***************************************************************************)
(* Model of WhisperApp/Scripts/check_networking_symbols.py: the build-time *)
(* gate that scans the source tree and the compiled binary for forbidden   *)
(* networking patterns and turns the result into the process exit code.    *)
(*                                                                         *)
(* The environment (command line, file system, behaviour of the external   *)
(* tools nm and objdump) is fixed by Init; the program is the sequential   *)
(* run of main(), one action per statement group, with pc as its position. *)
(* Text is modelled by TLA+ strings, and Python's `in` and `endswith` are  *)
(* computed character by character.                                        *)
(***************************************************************************)
EXTENDS Integers, Sequences, FiniteSets, TLC

VARIABLES
    argv,           \* sys.argv
    binary_exists,  \* os.path.exists(binary_path)
    tools,          \* what running nm / objdump on the binary does
    tree,           \* directory path -> its listing, in os.scandir order
    fsfiles,        \* file path -> [readable, content]
    pc,             \* position of the run
    dir_idx,        \* index of source_dir in source_dirs
    walk,           \* triples the os.walk generator has still to yield
    root,           \* root of the current os.walk triple
    files,          \* files of the current triple still to visit
    found_issues,   \* check_source_code: found_issues
    source_ok,      \* main: source_ok
    binary_path,    \* main: binary_path (<<>> is None, <<p>> is the string p)
    binary_ok,      \* main: binary_ok
    result,         \* check_binary_for_symbols: result (<<>> before the first run)
    found_symbols,  \* check_binary_for_symbols: found_symbols
    matched,        \* check_binary_for_symbols: symbols_output (<<>> while unset)
    exit_code,      \* status passed to sys.exit (-1 while running)
    diag,           \* warning and error lines printed so far
    exc,            \* exception in flight in check_binary_for_symbols (<<>> if none)
    tried,          \* tools handed to subprocess.run so far, in order
    running         \* child processes alive

vars == <<argv, binary_exists, tools, tree, fsfiles, pc, dir_idx, walk, root,
          files, found_issues, source_ok, binary_path, binary_ok, result,
          found_symbols, matched, exit_code, diag, exc, tried, running>>

env == <<argv, binary_exists, tools, tree, fsfiles>>

-----------------------------------------------------------------------------
(* Bounds of the model *)

MaxFiles == 3       \* files present in the source tree
MaxChunks == 2      \* pieces a symbol dump is concatenated from

-----------------------------------------------------------------------------
(* The policy lists *)

FORBIDDEN_SYMBOLS ==
    << "URLSession", "NSURLSession", "NSURLConnection", "CFSocket",
       "Network.framework", "socket(", "connect(", "bind(", "listen(",
       "accept(", "send(", "recv(", "sendto(", "recvfrom(",
       "CFNetworkExecuteProxyAutoConfigurationURL",
       "CFNetworkCopyProxiesForURL", "CFHTTPMessage", "CFHTTPStream",
       "SCNetworkReachability", "NSNetService", "NSStream", "CFStream",
       "CFReadStream", "CFWriteStream" >>

forbidden_imports ==
    << "import Network", "import CFNetwork", "@import Network",
       "@import CFNetwork", "#import <CFNetwork/", "#import <Network/",
       "URLSession", "NSURLSession", "NSURLConnection" >>

source_dirs == << "WhisperApp/WhisperApp", "WhisperApp/Tests" >>

Extensions == << ".swift", ".m", ".mm", ".h" >>

-----------------------------------------------------------------------------
(* Python string operations *)

\* `p in s`: p occurs in s as a contiguous run of characters
In(p, s) == \E i \in 0..(Len(s) - Len(p)) : SubSeq(s, i + 1, i + Len(p)) = p

\* s.endswith(suffix)
EndsWith(s, suffix) ==
    /\ Len(suffix) <= Len(s)
    /\ SubSeq(s, Len(s) - Len(suffix) + 1, Len(s)) = suffix

\* variant of Eligible: the extension is looked for anywhere in the name
Eligible_Substring(file) == \E k \in 1..Len(Extensions) : In(Extensions[k], file)

\* file.endswith(('.swift', '.m', '.mm', '.h'))
Eligible(file) == \E k \in 1..Len(Extensions) : EndsWith(file, Extensions[k])

\* os.path.join(root, file)
PathJoin(r, f) == r \o "/" \o f

\* f"{file_path}: {forbidden}"
Issue(file_path, forbidden) == file_path \o ": " \o forbidden

\* variant of SymbolLoop: the loop stops at the first symbol found
RECURSIVE SymbolLoop_FirstMatch(_, _)
SymbolLoop_FirstMatch(symbols_output, k) ==
    IF k > Len(FORBIDDEN_SYMBOLS) THEN << >>
    ELSE IF In(FORBIDDEN_SYMBOLS[k], symbols_output)
         THEN << FORBIDDEN_SYMBOLS[k] >>
         ELSE SymbolLoop_FirstMatch(symbols_output, k + 1)

\* lines 64-66: for symbol in FORBIDDEN_SYMBOLS: if symbol in symbols_output:
\* found_symbols.append(symbol); the part of the loop from index k on
RECURSIVE SymbolLoop(_, _)
SymbolLoop(symbols_output, k) ==
    IF k > Len(FORBIDDEN_SYMBOLS) THEN << >>
    ELSE (IF In(FORBIDDEN_SYMBOLS[k], symbols_output)
          THEN << FORBIDDEN_SYMBOLS[k] >> ELSE << >>)
         \o SymbolLoop(symbols_output, k + 1)

\* lines 112-114: for forbidden in forbidden_imports: if forbidden in content:
\* found_issues.append(f"{file_path}: {forbidden}"); the loop from index k on
RECURSIVE ImportLoop(_, _, _)
ImportLoop(file_path, content, k) ==
    IF k > Len(forbidden_imports) THEN << >>
    ELSE (IF In(forbidden_imports[k], content)
          THEN << Issue(file_path, forbidden_imports[k]) >> ELSE << >>)
         \o ImportLoop(file_path, content, k + 1)

\* os.walk(top): top-down, one triple per directory, sub-directories in
\* listing order; a directory that cannot be listed yields nothing
RECURSIVE Walk(_, _), WalkDirs(_, _, _)
Walk(t, d) ==
    IF d \notin DOMAIN t THEN << >>
    ELSE << [root |-> d, dirs |-> t[d].dirs, files |-> t[d].files] >>
         \o WalkDirs(t, d, t[d].dirs)
WalkDirs(t, d, ds) ==
    IF ds = << >> THEN << >>
    ELSE Walk(t, PathJoin(d, Head(ds))) \o WalkDirs(t, d, Tail(ds))

-----------------------------------------------------------------------------
(* The environments the runs start from *)

R1 == source_dirs[1]
R2 == source_dirs[2]
Views == PathJoin(R1, "Views")
BinPath == "build/Whisper"
Script == "check_networking_symbols.py"

\* candidate files of the tree: four eligible names, one for each extension,
\* and a name that holds ".m" without ending in it
PoolFiles ==
    { [dir |-> R1, name |-> "A.swift"], [dir |-> R1, name |-> "B.m"],
      [dir |-> R1, name |-> "E.m.txt"], [dir |-> Views, name |-> "C.mm"],
      [dir |-> R2, name |-> "D.h"] }

Unreadable == [readable |-> FALSE, content |-> ""]
CleanText == "let x = 1"
OneImport == "import Network"
ManyImports == "@import CFNetwork; NSURLSession()"
FileStates ==
    { Unreadable } \cup
    { [readable |-> TRUE, content |-> c] : c \in {CleanText, OneImport, ManyImports} }

RootOf(d) == IF d = R2 THEN R2 ELSE R1
PathOf(f) == PathJoin(f.dir, f.name)
NamesIn(present, d) == { f.name : f \in { g \in present : g.dir = d } }
Perms(S) ==
    { s \in [1..Cardinality(S) -> S] : \A i, j \in DOMAIN s : s[i] = s[j] => i = j }

\* the directories of a tree whose existing roots are E
DirsOf(E) == E \cup (IF R1 \in E THEN {Views} ELSE {})

\* the tree with roots E and files `present`, R1 listed in order l1
MkTree(E, present, l1) ==
    [ d \in DirsOf(E) |->
        [ files |-> IF d = R1 THEN l1
                    ELSE IF NamesIn(present, d) = {} THEN << >>
                    ELSE << CHOOSE n \in NamesIn(present, d) : TRUE >>,
          dirs |-> IF d = R1 THEN << "Views" >> ELSE << >> ] ]

\* pieces of symbol-dump text; "NS" + "URLSession", "send" + "(" and
\* "send" + "to(" make patterns that none of the pieces holds alone
DumpChunks == { "_main ", "NS", "URLSession", "send", "to(", "(" }

RECURSIVE Dumps(_)
Dumps(n) ==
    IF n = 0 THEN { "" }
    ELSE Dumps(n - 1) \cup { d \o c : d \in Dumps(n - 1), c \in DumpChunks }

\* what subprocess.run does for one tool: raise (the executable is missing
\* or may not be run), or run the child to its exit and return its return
\* code and its standard output as text
SpawnError == [kind |-> "raise", returncode |-> 0, stdout |-> "",
               error |-> "[Errno 2] No such file or directory"]
Exits(rc, out) == [kind |-> "exit", returncode |-> rc, stdout |-> out, error |-> ""]
FailCodes == { 1, -11 }
FailOutputs == { "", "T socket(" }
Outcomes(D) ==
    { SpawnError } \cup { Exits(0, d) : d \in D }
    \cup { Exits(rc, o) : rc \in FailCodes, o \in FailOutputs }

\* command line, binary and tools; after an nm that exits 0 objdump is never
\* run, so its behaviour is drawn only for an nm that fails
BinWorlds(D) ==
    { [argv |-> << Script >>, binary_exists |-> FALSE,
       tools |-> [nm |-> SpawnError, objdump |-> SpawnError]],
      [argv |-> << Script, "" >>, binary_exists |-> FALSE,
       tools |-> [nm |-> SpawnError, objdump |-> SpawnError]],
      [argv |-> << Script, BinPath >>, binary_exists |-> FALSE,
       tools |-> [nm |-> SpawnError, objdump |-> SpawnError]] }
    \cup
    { [argv |-> << Script, BinPath >>, binary_exists |-> TRUE,
       tools |-> [nm |-> o1, objdump |-> o2]] :
         <<o1, o2>> \in { p \in Outcomes(D) \X Outcomes(D) :
                            \/ p[1].kind = "raise"
                            \/ p[1].returncode # 0
                            \/ p[2] = SpawnError } }

SmallBinWorlds ==
    { [argv |-> << Script >>, binary_exists |-> FALSE,
       tools |-> [nm |-> SpawnError, objdump |-> SpawnError]],
      [argv |-> << Script, BinPath >>, binary_exists |-> TRUE,
       tools |-> [nm |-> Exits(0, "U socket("), objdump |-> SpawnError]] }

\* the program's variables at the start of the run
InitProgram ==
    /\ pc = "main"
    /\ dir_idx = 1
    /\ walk = << >>
    /\ root = ""
    /\ files = << >>
    /\ found_issues = << >>
    /\ source_ok = TRUE
    /\ binary_path = << >>
    /\ binary_ok = TRUE
    /\ result = << >>
    /\ found_symbols = << >>
    /\ matched = << >>
    /\ exit_code = -1
    /\ diag = << >>
    /\ exc = << >>
    /\ tried = << >>
    /\ running = {}

InitEnv(E, present, st, l1, w) ==
    /\ tree = MkTree(E, present, l1)
    /\ fsfiles = [ p \in { PathOf(f) : f \in present } |-> st[p] ]
    /\ argv = w.argv
    /\ binary_exists = w.binary_exists
    /\ tools = w.tools

\* any tree of at most MaxFiles files, with one of two command lines
InitTrees ==
    \E E \in SUBSET { R1, R2 } :
    \E present \in { P \in SUBSET PoolFiles :
                       /\ Cardinality(P) <= MaxFiles
                       /\ \A f \in P : RootOf(f.dir) \in E } :
    \E st \in [ { PathOf(f) : f \in present } -> FileStates ] :
    \E l1 \in Perms(NamesIn(present, R1)) :
    \E w \in SmallBinWorlds :
        InitEnv(E, present, st, l1, w)

\* any command line, binary and tool behaviour, with one of three trees
InitBinaries ==
    \E E \in { {}, {R1} } :
    \E present \in { P \in SUBSET { [dir |-> R1, name |-> "A.swift"] } :
                       \A f \in P : RootOf(f.dir) \in E } :
    \E st \in [ { PathOf(f) : f \in present } ->
                  { [readable |-> TRUE, content |-> OneImport] } ] :
    \E l1 \in Perms(NamesIn(present, R1)) :
    \E w \in BinWorlds(Dumps(MaxChunks)) :
        InitEnv(E, present, st, l1, w)

Init == InitProgram /\ (InitTrees \/ InitBinaries)

-----------------------------------------------------------------------------
(* main and check_source_code *)

\* line 130-133: main starts and calls check_source_code
MainStart ==
    /\ pc = "main"
    /\ pc' = "src_dirs"
    /\ found_issues' = << >>
    /\ dir_idx' = 1
    /\ UNCHANGED <<env, walk, root, files, source_ok, binary_path, binary_ok,
                   result, found_symbols, matched, exit_code, diag, exc, tried,
                   running>>

\* lines 100-102: the next source_dir does not exist
SourceDirMissing ==
    /\ pc = "src_dirs"
    /\ dir_idx <= Len(source_dirs)
    /\ source_dirs[dir_idx] \notin DOMAIN tree
    /\ dir_idx' = dir_idx + 1
    /\ UNCHANGED <<env, pc, walk, root, files, found_issues, source_ok,
                   binary_path, binary_ok, result, found_symbols, matched,
                   exit_code, diag, exc, tried, running>>

\* line 104: the next source_dir exists, os.walk starts on it
SourceDirWalk ==
    /\ pc = "src_dirs"
    /\ dir_idx <= Len(source_dirs)
    /\ source_dirs[dir_idx] \in DOMAIN tree
    /\ walk' = Walk(tree, source_dirs[dir_idx])
    /\ pc' = "src_walk"
    /\ UNCHANGED <<env, dir_idx, root, files, found_issues, source_ok,
                   binary_path, binary_ok, result, found_symbols, matched,
                   exit_code, diag, exc, tried, running>>

\* line 104: os.walk yields the next (root, dirs, files)
WalkNext ==
    /\ pc = "src_walk"
    /\ walk # << >>
    /\ root' = Head(walk).root
    /\ files' = Head(walk).files
    /\ walk' = Tail(walk)
    /\ pc' = "src_files"
    /\ UNCHANGED <<env, dir_idx, found_issues, source_ok, binary_path,
                   binary_ok, result, found_symbols, matched, exit_code, diag,
                   exc, tried, running>>

\* line 104: os.walk is exhausted, on to the next source_dir
WalkDone ==
    /\ pc = "src_walk"
    /\ walk = << >>
    /\ dir_idx' = dir_idx + 1
    /\ pc' = "src_dirs"
    /\ UNCHANGED <<env, walk, root, files, found_issues, source_ok,
                   binary_path, binary_ok, result, found_symbols, matched,
                   exit_code, diag, exc, tried, running>>

\* line 105: the files of this directory are exhausted
FilesDone ==
    /\ pc = "src_files"
    /\ files = << >>
    /\ pc' = "src_walk"
    /\ UNCHANGED <<env, dir_idx, walk, root, files, found_issues, source_ok,
                   binary_path, binary_ok, result, found_symbols, matched,
                   exit_code, diag, exc, tried, running>>

\* line 106: the file's name has none of the extensions
FileSkipped ==
    /\ pc = "src_files"
    /\ files # << >>
    /\ ~Eligible(Head(files))
    /\ files' = Tail(files)
    /\ UNCHANGED <<env, pc, dir_idx, walk, root, found_issues, source_ok,
                   binary_path, binary_ok, result, found_symbols, matched,
                   exit_code, diag, exc, tried, running>>

\* variant of FileUnreadable: the handler sits outside the loops, so a read
\* error ends the walk of this source_dir
FileUnreadable_Abort ==
    /\ pc = "src_files"
    /\ files # << >>
    /\ Eligible(Head(files))
    /\ ~fsfiles[PathJoin(root, Head(files))].readable
    /\ diag' = Append(diag, "Warning: Could not read " \o PathJoin(root, Head(files)))
    /\ files' = << >>
    /\ walk' = << >>
    /\ UNCHANGED <<env, pc, dir_idx, root, found_issues, source_ok,
                   binary_path, binary_ok, result, found_symbols, matched,
                   exit_code, exc, tried, running>>

\* lines 107-110, 115-116: open or read raises; the except clause prints a
\* warning and the loop goes on
FileUnreadable ==
    /\ pc = "src_files"
    /\ files # << >>
    /\ Eligible(Head(files))
    /\ ~fsfiles[PathJoin(root, Head(files))].readable
    /\ diag' = Append(diag, "Warning: Could not read " \o PathJoin(root, Head(files)))
    /\ files' = Tail(files)
    /\ UNCHANGED <<env, pc, dir_idx, walk, root, found_issues, source_ok,
                   binary_path, binary_ok, result, found_symbols, matched,
                   exit_code, exc, tried, running>>

\* lines 107-114: the file is read and every pattern is looked for
FileScanned ==
    /\ pc = "src_files"
    /\ files # << >>
    /\ Eligible(Head(files))
    /\ fsfiles[PathJoin(root, Head(files))].readable
    /\ found_issues' = found_issues \o
           ImportLoop(PathJoin(root, Head(files)),
                      fsfiles[PathJoin(root, Head(files))].content, 1)
    /\ files' = Tail(files)
    /\ UNCHANGED <<env, pc, dir_idx, walk, root, source_ok, binary_path,
                   binary_ok, result, found_symbols, matched, exit_code, diag,
                   exc, tried, running>>

\* lines 118-126: the value check_source_code returns
SourceVerdict(issues) == issues = << >>

\* lines 118-126, 133: check_source_code returns into source_ok
SourceReturn ==
    /\ pc = "src_dirs"
    /\ dir_idx > Len(source_dirs)
    /\ source_ok' = SourceVerdict(found_issues)
    /\ pc' = "main_argv"
    /\ UNCHANGED <<env, dir_idx, walk, root, files, found_issues, binary_path,
                   binary_ok, result, found_symbols, matched, exit_code, diag,
                   exc, tried, running>>

\* line 136: sys.argv[1] if len(sys.argv) > 1 else None
ArgvPath(a) == IF Len(a) > 1 THEN << a[2] >> ELSE << >>

\* line 139: the truth value of binary_path (None and "" are false)
Truthy(p) == p # << >> /\ p[1] # ""

\* lines 136-137
MainArgv ==
    /\ pc = "main_argv"
    /\ binary_path' = ArgvPath(argv)
    /\ binary_ok' = TRUE
    /\ pc' = "main_if"
    /\ UNCHANGED <<env, dir_idx, walk, root, files, found_issues, source_ok,
                   result, found_symbols, matched, exit_code, diag, exc, tried,
                   running>>

\* lines 141-142: no binary path, the binary analysis is skipped
MainSkipBinary ==
    /\ pc = "main_if"
    /\ ~Truthy(binary_path)
    /\ pc' = "main_verdict"
    /\ UNCHANGED <<env, dir_idx, walk, root, files, found_issues, source_ok,
                   binary_path, binary_ok, result, found_symbols, matched,
                   exit_code, diag, exc, tried, running>>

\* lines 139-140: check_binary_for_symbols(binary_path) is called
MainCallBinary ==
    /\ pc = "main_if"
    /\ Truthy(binary_path)
    /\ pc' = "bin_exists"
    /\ UNCHANGED <<env, dir_idx, walk, root, files, found_issues, source_ok,
                   binary_path, binary_ok, result, found_symbols, matched,
                   exit_code, diag, exc, tried, running>>

\* variant of BuildFailed: the binary result is left out of the test
BuildFailed_SourceOnly(s, b) == ~s

\* line 145: if not source_ok or not binary_ok
BuildFailed(s, b) == ~s \/ ~b

\* lines 145-148: sys.exit(1)
ExitFail ==
    /\ pc = "main_verdict"
    /\ BuildFailed(source_ok, binary_ok)
    /\ exit_code' = 1
    /\ pc' = "exited"
    /\ UNCHANGED <<env, dir_idx, walk, root, files, found_issues, source_ok,
                   binary_path, binary_ok, result, found_symbols, matched, diag,
                   exc, tried, running>>

\* lines 150-151: sys.exit(0)
ExitPass ==
    /\ pc = "main_verdict"
    /\ ~BuildFailed(source_ok, binary_ok)
    /\ exit_code' = 0
    /\ pc' = "exited"
    /\ UNCHANGED <<env, dir_idx, walk, root, files, found_issues, source_ok,
                   binary_path, binary_ok, result, found_symbols, matched, diag,
                   exc, tried, running>>

-----------------------------------------------------------------------------
(* check_binary_for_symbols *)

\* lines 42-44: the binary is not there; warn and return True
BinaryNotFound ==
    /\ pc = "bin_exists"
    /\ ~binary_exists
    /\ diag' = Append(diag, "Warning: Binary not found at " \o binary_path[1])
    /\ binary_ok' = TRUE
    /\ pc' = "main_verdict"
    /\ UNCHANGED <<env, dir_idx, walk, root, files, found_issues, source_ok,
                   binary_path, result, found_symbols, matched, exit_code, exc,
                   tried, running>>

\* line 48: subprocess.run(['nm', '-D', binary_path]) raises at spawn
NmSpawnFails ==
    /\ pc = "bin_exists"
    /\ binary_exists
    /\ tools.nm.kind = "raise"
    /\ tried' = Append(tried, "nm")
    /\ exc' = << tools.nm.error >>
    /\ pc' = "bin_except"
    /\ UNCHANGED <<env, dir_idx, walk, root, files, found_issues, source_ok,
                   binary_path, binary_ok, result, found_symbols, matched,
                   exit_code, diag, running>>

\* line 48: nm is spawned and the call blocks until it exits
NmSpawn ==
    /\ pc = "bin_exists"
    /\ binary_exists
    /\ tools.nm.kind = "exit"
    /\ tried' = Append(tried, "nm")
    /\ running' = running \cup { "nm" }
    /\ pc' = "bin_nm_wait"
    /\ UNCHANGED <<env, dir_idx, walk, root, files, found_issues, source_ok,
                   binary_path, binary_ok, result, found_symbols, matched,
                   exit_code, diag, exc>>

\* lines 48-49: nm exits; result holds its return code and standard output
NmExit ==
    /\ pc = "bin_nm_wait"
    /\ running' = running \ { "nm" }
    /\ result' = << [returncode |-> tools.nm.returncode, stdout |-> tools.nm.stdout] >>
    /\ pc' = "bin_line51"
    /\ UNCHANGED <<env, dir_idx, walk, root, files, found_issues, source_ok,
                   binary_path, binary_ok, found_symbols, matched, exit_code,
                   diag, exc, tried>>

\* variant of NeedsFallback: objdump is run whatever nm returned
NeedsFallback_Always(r) == TRUE

\* line 51: if result.returncode != 0
NeedsFallback(r) == r.returncode # 0

\* line 51: nm exited 0, the fallback is not run
NoFallback ==
    /\ pc = "bin_line51"
    /\ ~NeedsFallback(result[1])
    /\ pc' = "bin_line56"
    /\ UNCHANGED <<env, dir_idx, walk, root, files, found_issues, source_ok,
                   binary_path, binary_ok, result, found_symbols, matched,
                   exit_code, diag, exc, tried, running>>

\* line 53: subprocess.run(['objdump', '-t', binary_path]) raises at spawn
ObjdumpSpawnFails ==
    /\ pc = "bin_line51"
    /\ NeedsFallback(result[1])
    /\ tools.objdump.kind = "raise"
    /\ tried' = Append(tried, "objdump")
    /\ exc' = << tools.objdump.error >>
    /\ pc' = "bin_except"
    /\ UNCHANGED <<env, dir_idx, walk, root, files, found_issues, source_ok,
                   binary_path, binary_ok, result, found_symbols, matched,
                   exit_code, diag, running>>

\* line 53: objdump is spawned and the call blocks until it exits
ObjdumpSpawn ==
    /\ pc = "bin_line51"
    /\ NeedsFallback(result[1])
    /\ tools.objdump.kind = "exit"
    /\ tried' = Append(tried, "objdump")
    /\ running' = running \cup { "objdump" }
    /\ pc' = "bin_objdump_wait"
    /\ UNCHANGED <<env, dir_idx, walk, root, files, found_issues, source_ok,
                   binary_path, binary_ok, result, found_symbols, matched,
                   exit_code, diag, exc>>

\* lines 53-54: objdump exits; result is overwritten with its outcome
ObjdumpExit ==
    /\ pc = "bin_objdump_wait"
    /\ running' = running \ { "objdump" }
    /\ result' = << [returncode |-> tools.objdump.returncode,
                     stdout |-> tools.objdump.stdout] >>
    /\ pc' = "bin_line56"
    /\ UNCHANGED <<env, dir_idx, walk, root, files, found_issues, source_ok,
                   binary_path, binary_ok, found_symbols, matched, exit_code,
                   diag, exc, tried>>

\* line 56: if result.returncode != 0
AnalysisFailed(r) == r.returncode # 0

\* variant of AnalysisFailedReturn: fail closed
AnalysisFailedReturn_FailClosed == FALSE

\* line 58: return True  # Allow build to continue
AnalysisFailedReturn == TRUE

\* lines 56-58: no tool produced a dump; warn and return
CouldNotAnalyze ==
    /\ pc = "bin_line56"
    /\ AnalysisFailed(result[1])
    /\ diag' = Append(diag, "Warning: Could not analyze binary " \o binary_path[1])
    /\ binary_ok' = AnalysisFailedReturn
    /\ pc' = "main_verdict"
    /\ UNCHANGED <<env, dir_idx, walk, root, files, found_issues, source_ok,
                   binary_path, result, found_symbols, matched, exit_code, exc,
                   tried, running>>

\* line 60: symbols_output = result.stdout
SymbolsOutput(r) == r.stdout

\* lines 60-77: the dump is matched against FORBIDDEN_SYMBOLS
MatchSymbols ==
    /\ pc = "bin_line56"
    /\ ~AnalysisFailed(result[1])
    /\ matched' = << SymbolsOutput(result[1]) >>
    /\ found_symbols' = SymbolLoop(SymbolsOutput(result[1]), 1)
    /\ binary_ok' = (found_symbols' = << >>)
    /\ pc' = "main_verdict"
    /\ UNCHANGED <<env, dir_idx, walk, root, files, found_issues, source_ok,
                   binary_path, result, exit_code, diag, exc, tried, running>>

\* variant of ExceptReturn: fail closed
ExceptReturn_FailClosed == FALSE

\* line 81: return True  # Allow build to continue on error
ExceptReturn == TRUE

\* variant of HandleException: no except clause, the exception leaves main
\* and the interpreter ends the run with a traceback
HandleException_Propagates ==
    /\ pc = "bin_except"
    /\ pc' = "crashed"
    /\ UNCHANGED <<env, dir_idx, walk, root, files, found_issues, source_ok,
                   binary_path, binary_ok, result, found_symbols, matched,
                   exit_code, diag, exc, tried, running>>

\* lines 79-81: except Exception as e: print the error and return
HandleException ==
    /\ pc = "bin_except"
    /\ diag' = Append(diag, "Error checking symbols: " \o exc[1])
    /\ exc' = << >>
    /\ binary_ok' = ExceptReturn
    /\ pc' = "main_verdict"
    /\ UNCHANGED <<env, dir_idx, walk, root, files, found_issues, source_ok,
                   binary_path, result, found_symbols, matched, exit_code,
                   tried, running>>

-----------------------------------------------------------------------------
(* The specification *)

Next ==
    \/ MainStart
    \/ SourceDirMissing
    \/ SourceDirWalk
    \/ WalkNext
    \/ WalkDone
    \/ FilesDone
    \/ FileSkipped
    \/ FileUnreadable
    \/ FileScanned
    \/ SourceReturn
    \/ MainArgv
    \/ MainSkipBinary
    \/ MainCallBinary
    \/ BinaryNotFound
    \/ NmSpawnFails
    \/ NmSpawn
    \/ NmExit
    \/ NoFallback
    \/ ObjdumpSpawnFails
    \/ ObjdumpSpawn
    \/ ObjdumpExit
    \/ CouldNotAnalyze
    \/ MatchSymbols
    \/ HandleException
    \/ ExitFail
    \/ ExitPass

Spec == Init /\ [][Next]_vars

\* the run is sequential and every call it makes returns: a spawned tool
\* exits, a file read ends, so an enabled step is eventually taken
FairSpec == Spec /\ WF_vars(Next)

-----------------------------------------------------------------------------
(* Vocabulary of the properties *)

Range(q) == { q[i] : i \in DOMAIN q }
StartsWith(s, prefix) == Len(prefix) <= Len(s) /\ SubSeq(s, 1, Len(prefix)) = prefix

\* check_source_code has returned
SourceDone == pc \notin { "main", "src_dirs", "src_walk", "src_files" }

\* main is past the binary analysis
AfterBinary == pc \in { "main_verdict", "exited" }

\* a binary path was supplied on the command line
PathSupplied == Len(argv) > 1

\* check_binary_for_symbols was called on a binary that exists, and returned
ScannedExisting == AfterBinary /\ PathSupplied /\ argv[2] # "" /\ binary_exists

\* the position is inside check_binary_for_symbols
InBinaryScan ==
    pc \in { "bin_exists", "bin_nm_wait", "bin_line51", "bin_objdump_wait",
             "bin_line56", "bin_except" }

\* the dump the tools yield for the binary: the output of nm if nm exits 0,
\* else that of objdump if nm exits non-zero and objdump exits 0
DumpOf(tl) ==
    IF tl.nm.kind = "exit" /\ tl.nm.returncode = 0 THEN << tl.nm.stdout >>
    ELSE IF /\ tl.nm.kind = "exit" /\ tl.nm.returncode # 0
            /\ tl.objdump.kind = "exit" /\ tl.objdump.returncode = 0
         THEN << tl.objdump.stdout >>
         ELSE << >>

\* the files of the tree, as <<directory, name>>
TreeFiles == UNION { { <<d, n>> : n \in Range(tree[d].files) } : d \in DOMAIN tree }

\* d is an existing source root or lies below one
UnderRoot(d) ==
    \E k \in DOMAIN source_dirs :
        /\ source_dirs[k] \in DOMAIN tree
        /\ d = source_dirs[k] \/ StartsWith(d, source_dirs[k] \o "/")

HasSourceExtension(n) ==
    EndsWith(n, ".swift") \/ EndsWith(n, ".m") \/ EndsWith(n, ".mm") \/ EndsWith(n, ".h")

\* files under an existing root with an eligible name
EligibleFiles == { f \in TreeFiles : UnderRoot(f[1]) /\ HasSourceExtension(f[2]) }

\* <<file path, pattern index>> for every forbidden pattern that a readable
\* eligible file holds
ExpectedPairs ==
    { pk \in { PathJoin(f[1], f[2]) : f \in EligibleFiles } \X DOMAIN forbidden_imports :
        /\ fsfiles[pk[1]].readable
        /\ In(forbidden_imports[pk[2]], fsfiles[pk[1]].content) }

\* the pair of `pairs` that the text of a match stands for
PairOf(pairs, issue) ==
    CHOOSE pk \in pairs : Issue(pk[1], forbidden_imports[pk[2]]) = issue

SourceViolation == ExpectedPairs # {}

BinaryViolation ==
    /\ PathSupplied /\ argv[2] # "" /\ binary_exists
    /\ DumpOf(tools) # << >>
    /\ \E k \in DOMAIN FORBIDDEN_SYMBOLS : In(FORBIDDEN_SYMBOLS[k], DumpOf(tools)[1])

-----------------------------------------------------------------------------
(* Properties *)

\* C1: the run exits 0 exactly when the source scan passed and either no
\* binary path was supplied or the binary scan passed, and 1 otherwise;
\* without a binary path the binary scan is never entered and the exit code
\* follows the source scan alone.
C1_ExitCode ==
    /\ pc = "exited" =>
          /\ exit_code \in { 0, 1 }
          /\ exit_code = 0 <=> (source_ok /\ (~PathSupplied \/ binary_ok))
    /\ ~PathSupplied =>
          /\ ~InBinaryScan
          /\ tried = << >>
          /\ pc = "exited" => (exit_code = 0 <=> source_ok)

C1_Witness ==
    pc = "exited" /\ PathSupplied /\ source_ok /\ ~binary_ok /\ exit_code = 1

\* C2: the run exits 1 only if a forbidden pattern is in a readable eligible
\* source file or in a dump that a tool delivered with status 0; with no
\* such pattern it exits 0 whatever else failed, and with a missing binary
\* the exit code follows the source result alone.
C2_OnlyViolationsFail ==
    pc = "exited" =>
        /\ exit_code = 1 => (SourceViolation \/ BinaryViolation)
        /\ (PathSupplied /\ argv[2] # "" /\ ~binary_exists) =>
               (exit_code = 1 <=> SourceViolation)

C2_Witness ==
    /\ pc = "exited" /\ exit_code = 0
    /\ tried = << "nm", "objdump" >> /\ matched = << >>
    /\ tools.nm.stdout = "T socket("

\* C3: when a tool delivered a dump with status 0, the binary scan fails
\* exactly when some pattern of FORBIDDEN_SYMBOLS occurs in that dump; the
\* matches are the patterns occurring in it, each once, in registry order.
C3_BinaryMatches ==
    (ScannedExisting /\ DumpOf(tools) # << >>) =>
        LET dump == DumpOf(tools)[1]
            hits == { k \in DOMAIN FORBIDDEN_SYMBOLS : In(FORBIDDEN_SYMBOLS[k], dump) }
        IN  /\ binary_ok = (hits = {})
            /\ Range(found_symbols) = { FORBIDDEN_SYMBOLS[k] : k \in hits }
            /\ Len(found_symbols) = Cardinality(hits)
            /\ \A i, j \in DOMAIN found_symbols :
                   i < j => \E a, b \in hits :
                               /\ a < b
                               /\ found_symbols[i] = FORBIDDEN_SYMBOLS[a]
                               /\ found_symbols[j] = FORBIDDEN_SYMBOLS[b]

C3_Witness ==
    /\ ScannedExisting
    /\ DumpOf(tools) = << "NSURLSession" >>
    /\ found_symbols = << "URLSession", "NSURLSession" >>
    /\ ~binary_ok

\* C4: objdump is run only after nm has exited with a non-zero status and
\* never while nm is alive; what is matched is the output of the tool that
\* exited 0, never the output of a tool that exited non-zero.
C4_FallbackOrder ==
    /\ Cardinality(running) <= 1
    /\ "objdump" \in Range(tried) =>
          /\ tried = << "nm", "objdump" >>
          /\ "nm" \notin running
          /\ tools.nm.kind = "exit" /\ tools.nm.returncode # 0
    /\ matched # << >> =>
          /\ tried # << >>
          /\ tools[tried[Len(tried)]].kind = "exit"
          /\ tools[tried[Len(tried)]].returncode = 0
          /\ matched[1] = tools[tried[Len(tried)]].stdout
    /\ found_symbols # << >> => matched # << >>

C4_Witness ==
    /\ AfterBinary
    /\ tried = << "nm", "objdump" >>
    /\ tools.nm.stdout = "T socket("
    /\ matched = << "_main " >>
    /\ binary_ok

\* C5: if both tools exit non-zero, or a spawn raises, the binary scan
\* returns passed with a diagnostic and without a match, and the exception
\* does not leave check_binary_for_symbols.
C5_ToolFailureFailsOpen ==
    /\ exc # << >> => pc = "bin_except"
    /\ (ScannedExisting /\
        (\/ \E i \in DOMAIN tried : tools[tried[i]].kind = "raise"
         \/ /\ tried = << "nm", "objdump" >>
            /\ tools.nm.returncode # 0 /\ tools.objdump.returncode # 0)) =>
          /\ binary_ok
          /\ found_symbols = << >> /\ matched = << >>
          /\ diag # << >>
          /\ \/ StartsWith(diag[Len(diag)], "Warning: Could not analyze binary")
             \/ StartsWith(diag[Len(diag)], "Error checking symbols")

C5_Witness ==
    /\ ScannedExisting
    /\ tried = << "nm", "objdump" >>
    /\ tools.objdump.kind = "raise"
    /\ binary_ok

\* C6: the matches of the source scan are exactly the pairs of a readable
\* file with an eligible name under an existing root and a pattern of
\* forbidden_imports occurring in it; the pairs of one file are adjacent
\* and in registry order; the scan fails exactly when there is a match.
C6_SourceMatches ==
    SourceDone =>
        LET pairs == ExpectedPairs
            texts == { Issue(pk[1], forbidden_imports[pk[2]]) : pk \in pairs }
        IN  /\ Range(found_issues) = texts
            /\ Len(found_issues) = Cardinality(pairs)
            /\ LET at == [ i \in DOMAIN found_issues |-> PairOf(pairs, found_issues[i]) ]
               IN  \A i, j \in DOMAIN found_issues :
                       (i < j /\ at[i][1] = at[j][1]) =>
                           /\ at[i][2] < at[j][2]
                           /\ \A m \in i..j : at[m][1] = at[i][1]
            /\ source_ok = (found_issues = << >>)

C6_Witness ==
    /\ SourceDone
    /\ Len(found_issues) >= 5
    /\ \E f \in TreeFiles : ~HasSourceExtension(f[2])

\* C7: an unreadable file is skipped with a warning: the step leaves the
\* matches collected so far as they are and goes on with the next file; at
\* the end every readable file and every existing root has been scanned, an
\* unreadable file has no match, and the scan fails only on a match.
C7_UnreadableSkipped ==
    /\ [][ (/\ pc = "src_files" /\ files # << >>
            /\ HasSourceExtension(Head(files))
            /\ ~fsfiles[PathJoin(root, Head(files))].readable) =>
               /\ found_issues' = found_issues
               /\ files' = Tail(files)
               /\ pc' = "src_files" /\ walk' = walk /\ dir_idx' = dir_idx
               /\ diag' = Append(diag, "Warning: Could not read "
                                        \o PathJoin(root, Head(files))) ]_vars
    /\ [](SourceDone =>
            /\ \A f \in EligibleFiles :
                  LET path == PathJoin(f[1], f[2])
                  IN  IF fsfiles[path].readable
                      THEN \A k \in DOMAIN forbidden_imports :
                              In(forbidden_imports[k], fsfiles[path].content)
                                  => Issue(path, forbidden_imports[k]) \in Range(found_issues)
                      ELSE /\ ("Warning: Could not read " \o path) \in Range(diag)
                           /\ \A i \in DOMAIN found_issues :
                                  ~StartsWith(found_issues[i], path \o ": ")
            /\ (\A f \in EligibleFiles :
                   fsfiles[PathJoin(f[1], f[2])].readable =>
                       \A k \in DOMAIN forbidden_imports :
                           ~In(forbidden_imports[k], fsfiles[PathJoin(f[1], f[2])].content))
                 => source_ok)

C7_Witness ==
    /\ SourceDone
    /\ R1 \in DOMAIN tree /\ R2 \in DOMAIN tree
    /\ tree[R1].files = << "A.swift", "B.m" >>
    /\ ~fsfiles[PathJoin(R1, "B.m")].readable
    /\ found_issues = << Issue(PathJoin(R1, "A.swift"), "import Network"),
                         Issue(PathJoin(R2, "D.h"), "import Network") >>

\* the matches of the files fl of directory r, visited in the order given
RECURSIVE IssuesOfFiles(_, _)
IssuesOfFiles(r, fl) ==
    IF fl = << >> THEN << >>
    ELSE (IF HasSourceExtension(Head(fl)) /\ fsfiles[PathJoin(r, Head(fl))].readable
          THEN ImportLoop(PathJoin(r, Head(fl)), fsfiles[PathJoin(r, Head(fl))].content, 1)
          ELSE << >>)
         \o IssuesOfFiles(r, Tail(fl))

RECURSIVE IssuesOfWalk(_)
IssuesOfWalk(w) ==
    IF w = << >> THEN << >>
    ELSE IssuesOfFiles(Head(w).root, Head(w).files) \o IssuesOfWalk(Tail(w))

\* the match sequence of a scan over the tree t, whose listings give the order
IssuesOfTree(t) ==
    IssuesOfWalk(Walk(t, source_dirs[1])) \o IssuesOfWalk(Walk(t, source_dirs[2]))

\* the scan reports the matches in the order of the directory listings
ScanFollowsListing == SourceDone => found_issues = IssuesOfTree(tree)

\* C8: the match sequence of the source scan is the same whatever order the
\* directory listing returns the entries of a directory in.
C8_OrderIndependent ==
    SourceDone =>
        \A d \in DOMAIN tree :
            \A l \in Perms(Range(tree[d].files)) :
                IssuesOfTree([tree EXCEPT ![d].files = l]) = found_issues

\* C9: every run ends in sys.exit(0) or sys.exit(1), after the source scan
\* went through every source_dir and, if a binary path was supplied, after
\* the binary scan warned of the missing binary or ran a tool.
C9_Terminates ==
    <>( /\ pc = "exited"
        /\ exit_code \in { 0, 1 }
        /\ dir_idx > Len(source_dirs)
        /\ (PathSupplied /\ argv[2] # "") =>
              IF binary_exists THEN tried # << >>
              ELSE ("Warning: Binary not found at " \o argv[2]) \in Range(diag) )

C9_Witness ==
    /\ pc = "exited"
    /\ tried = << "nm", "objdump" >>
    /\ tools.objdump.kind = "raise"
    /\ R2 \notin DOMAIN tree
    /\ exit_code = 1

\* C10: the binary scan returns without a dump only after both nm and
\* objdump have been tried, however nm failed.
C10_FallbackAlwaysTried ==
    (ScannedExisting /\ matched = << >>) => tried = << "nm", "objdump" >>

====
